---- MODULE Spec2Model ----
(***************************************************************************)
(* Model of src/api/commands/compile.ts: the top-level compile(), the      *)
(* worker protocol of CompileChildProcess.compile() (listeners, send,      *)
(* deadline timer, Promise.race, finally-cleanup) and                      *)
(* checkDataformJsonValidity.                                              *)
(*                                                                         *)
(* JavaScript scheduling is modelled as it is in Node: one thread, a       *)
(* synchronous block runs to its next await, and the microtask queue       *)
(* (promise reaction jobs, FIFO) is drained before the next callback of    *)
(* the event loop is taken. Two kinds of callbacks run back to back with   *)
(* no promise job in between: the 'message' and 'error' events of one      *)
(* turn (Node emits them through process.nextTick) and, before Node 11,    *)
(* the timers that are due together. compile() itself is called by         *)
(* running JavaScript: a call starts whenever no other block runs. A promise *)
(* rejected with no handler is reported once the microtask queue is       *)
(* drained; whether the report ends the process depends on the Node       *)
(* version and on the handlers installed, so both are possible.           *)
(***************************************************************************)
EXTENDS Integers, Sequences, FiniteSets, TLC

(* ------------------------------ bounds -------------------------------- *)
\* 'message' and 'error' events the workers may emit in one behaviour
MaxEvents == 2
\* terminations of a worker handle the callers may issue after its call settled
MaxTerminate == 1
\* the exit codes a worker may end with are 0..MaxExitCode
MaxExitCode == 1

\* the compile() calls of a behaviour: one, or two side by side
Calls == {1, 2}

(* --------------------------- program constants ------------------------ *)
\* compile.ts:110  compileConfig.timeoutMillis || 5000
DefaultTimeoutMillis == 5000
\* compile.ts:12
mandatoryProps == <<"warehouse", "defaultSchema">>
\* compile.ts:15-21
simpleCheckProps ==
  <<"assertionSchema", "databaseSuffix", "schemaSuffix", "tablePrefix", "defaultSchema">>

\* Strings the validator inspects are sequences of one-character strings.
BIGQUERY == <<"b", "i", "g", "q", "u", "e", "r", "y">>
POSTGRES == <<"p", "o", "s", "t", "g", "r", "e", "s">>
\* df/api/dbadapters validWarehouses (imported at compile.ts:6): the allow-list
validWarehouses == <<BIGQUERY, POSTGRES>>

\* the characters the class [a-zA-Z_0-9\-] of compile.ts:137 accepts, among
\* the characters the model's strings are made of
SimpleChars ==
  {"a", "b", "d", "e", "f", "g", "i", "o", "p", "q", "r", "s", "t", "u", "x", "y",
   "Z", "0", "9", "_", "-"}

(* ------------------------------ values -------------------------------- *)
\* An optional JS value is a sequence: <<>> is undefined, <<v>> is v.
Undefined == <<>>
Def(v) == <<v>>
IsDef(o) == o # <<>>
Val(o) == o[1]

\* JS truthiness of an optional string (a sequence of characters)
TruthyStr(o) == IsDef(o) /\ Val(o) # <<>>
\* JS truthiness of an optional number
TruthyNum(o) == IsDef(o) /\ Val(o) # 0

RangeOf(s) == {s[i] : i \in 1..Len(s)}
\* Array.prototype.find: the index of the first element of s among `matching`
\* (the elements the predicate holds of), 0 when there is none
FindIndex(s, matching) ==
  IF \E i \in 1..Len(s) : s[i] \in matching
    THEN CHOOSE i \in 1..Len(s) : s[i] \in matching /\ \A j \in 1..(i - 1) : s[j] \notin matching
    ELSE 0


(* ---------------------- checkDataformJsonValidity --------------------- *)
\* A parsed project config is a function from property names to strings.
Has(cfg, prop) == prop \in DOMAIN cfg
\* cfg[prop] as JS reads it: undefined when the property is absent
Get(cfg, prop) == IF Has(cfg, prop) THEN Def(cfg[prop]) ELSE Undefined

\* compile.ts:137  /^[a-zA-Z_0-9\-]*$/.test(value)
RegexTest(str) == \A i \in 1..Len(str) : str[i] \in SimpleChars

NoMessage == [rule |-> "none", prop |-> "", value |-> <<>>]
Message(rule, prop, value) == [rule |-> rule, prop |-> prop, value |-> value]

\* compile.ts:128-134
invalidWarehouseProp(cfg) ==
  IF TruthyStr(Get(cfg, "warehouse")) /\ cfg["warehouse"] \notin RangeOf(validWarehouses)
    THEN Message("invalidWarehouse", "warehouse", cfg["warehouse"])
    ELSE NoMessage

\* compile.ts:135-142
invalidProp(cfg) ==
  LET bad == {prop \in RangeOf(simpleCheckProps) : Has(cfg, prop) /\ ~RegexTest(cfg[prop])}
      i == FindIndex(simpleCheckProps, bad)
  IN  IF i # 0
        THEN Message("invalidProp", simpleCheckProps[i], cfg[simpleCheckProps[i]])
        ELSE NoMessage

\* mutant: the test `prop in` without its negation
missingMandatoryPropInverted(cfg) ==
  LET present == {prop \in RangeOf(mandatoryProps) : Has(cfg, prop)}
      i == FindIndex(mandatoryProps, present)
  IN  IF i # 0 THEN Message("missingMandatory", mandatoryProps[i], <<>>) ELSE NoMessage

\* compile.ts:143-148
missingMandatoryProp(cfg) ==
  LET missing == {prop \in RangeOf(mandatoryProps) : ~Has(cfg, prop)}
      i == FindIndex(mandatoryProps, missing)
  IN  IF i # 0 THEN Message("missingMandatory", mandatoryProps[i], <<>>) ELSE NoMessage

\* JS a || b on messages: null is the only falsy one
OrElse(a, b) == IF a # NoMessage THEN a ELSE b

\* compile.ts:149-152: the message of the Error thrown, NoMessage when none is
checkDataformJsonValidity(cfg) ==
  OrElse(invalidWarehouseProp(cfg), OrElse(invalidProp(cfg), missingMandatoryProp(cfg)))

\* compile.ts:43 deepmerge(projectConfig, override) on flat configs of strings:
\* the properties of both, the override's value where both have one
deepmerge(base, over) ==
  [p \in DOMAIN base \cup DOMAIN over |-> IF p \in DOMAIN over THEN over[p] ELSE base[p]]


(* ------------------------------- state -------------------------------- *)
VARIABLES
  pc,           \* per call: the line the call stands at
  request,      \* per call: the caller's compileConfig object
  disk,         \* per call: the state of ${projectDir}/dataform.json
  caught,       \* per call: the exception e caught at compile.ts:44
  topResult,    \* per call: what the top-level compile() returned or threw
  worker,       \* per call: the forked process: "none", "running", "exited"
                \* (ended, not yet reaped by Node), "killed" (SIGKILL sent to
                \* the live process), "reaped" (Node has processed the exit),
                \* "closed" ('close' emitted)
  exitCode,     \* per call: the code the process ended with (Undefined: by signal)
  killed,       \* per call: childProcess.killed
  killCalls,    \* per call: number of childProcess.kill("SIGKILL") calls of cleanup
  clearCalls,   \* per call: number of clearTimeout(timer) calls of cleanup
  listeners,    \* per call: events of childProcess that have a listener
  sent,         \* per call: number of childProcess.send(compileConfig) calls
  sendThrew,    \* per call: whether childProcess.send threw
  unhandled,    \* per call: the executor's rejected promise awaits its report
  nodeProcess,  \* the process compile() runs in: "up", "warned" (it reports
                \* unhandled rejections and goes on), "crashed"
  events,       \* 'message' and 'error' events the workers have emitted
  timer,        \* per call: the timer of compile.ts:105-112
  timerDelay,   \* per call: the delay setTimeout was given
  childP,       \* per call: the promise compileInChildProcess
  timeoutP,     \* per call: the promise timeout
  raceP,        \* per call: the promise Promise.race returned
  completion,   \* per call: the pending return/throw of the try block
  outcome,      \* per call: what CompileChildProcess.compile() returned or threw
  firstSignal,  \* per call: the first settling event that occurred (history)
  terminations, \* terminations issued after a call settled
  jobs,         \* the microtask queue
  turn          \* the callbacks the event loop is running back to back, no
                \* promise job having run since: "ipc", "timers", or "none"

cfgVars == <<request, disk, caught, topResult>>
procVars == <<worker, exitCode, killed, killCalls, terminations>>
cleanVars == <<clearCalls>>
rejVars == <<sendThrew, unhandled, nodeProcess>>
ipcVars == <<listeners, sent, rejVars, events>>
timerVars == <<timer, timerDelay>>
promVars == <<childP, timeoutP, raceP>>
endVars == <<completion, outcome>>
vars ==
  <<pc, cfgVars, procVars, cleanVars, ipcVars, timerVars, promVars, endVars, firstSignal,
    jobs, turn>>

\* What a promise settles with, and what compile() returns or throws.
NoValue == [kind |-> "none", payload |-> "", code |-> Undefined]
\* compile.ts:90 resolve(messageOrError)
Success(payload) == [kind |-> "Success", payload |-> payload, code |-> Undefined]
\* compile.ts:86, 93 coerceAsError(e)
WorkerError(e) == [kind |-> "WorkerError", payload |-> e, code |-> Undefined]
\* compile.ts:98 new Error(`Compilation child process exited with exit code ${exitCode}.`)
ProcessExit(code) == [kind |-> "ProcessExit", payload |-> "", code |-> code]
\* compile.ts:109 new CompilationTimeoutError("Compilation timed out")
CompilationTimeoutError ==
  [kind |-> "CompilationTimeoutError", payload |-> "", code |-> Undefined]

\* the string payloads and the error objects a worker may send
Payloads == {"p1", "p2"}
Errors == {"e1"}
ExitCodes == 0..MaxExitCode
\* the ways a worker process ends by itself: with an exit code, or by a signal
\* (Undefined: Node reports the code null)
Endings == {Undefined} \cup {Def(code) : code \in ExitCodes}

(* ------------------------------ promises ------------------------------ *)
Pending == [state |-> "pending", v |-> NoValue]
\* the resolve function of a promise: no effect once the promise is settled
resolve(p, v) == IF p.state = "pending" THEN [state |-> "resolved", v |-> v] ELSE p
\* the reject function of a promise: no effect once the promise is settled
reject(p, e) == IF p.state = "pending" THEN [state |-> "rejected", v |-> e] ELSE p

\* A microtask: a reaction job of Promise.race on one of its two inputs, or
\* the continuation of the async function after an await.
Job(c, kind) == [call |-> c, kind |-> kind]
\* the jobs queued when promise `before` of call c has become `after`
Reaction(c, before, after, kind) ==
  IF before.state = "pending" /\ after.state # "pending" THEN <<Job(c, kind)>> ELSE <<>>


(* ------------------------------- inputs ------------------------------- *)
GoodJson == [warehouse |-> BIGQUERY, defaultSchema |-> <<"d", "f">>]
Jsons ==
  { GoodJson,
    [warehouse |-> BIGQUERY],
    [warehouse |-> <<"x">>, defaultSchema |-> <<"d", "f">>],
    [warehouse |-> POSTGRES, defaultSchema |-> <<"d", "$">>] }

Disk(exists, parsable, json) == [exists |-> exists, parsable |-> parsable, json |-> json]
GoodDisk == Disk(TRUE, TRUE, GoodJson)
NoFileDisk == Disk(FALSE, FALSE, GoodJson)
Disks == {NoFileDisk, Disk(TRUE, FALSE, GoodJson)} \cup {Disk(TRUE, TRUE, j) : j \in Jsons}

Request(dir, over, suffix, millis, main) ==
  [projectDir |-> dir, projectConfigOverride |-> over, schemaSuffixOverride |-> suffix,
   timeoutMillis |-> millis, useMain |-> main]
ProjectDir == Def("proj")
Dirs == {Undefined, ProjectDir}
Overrides ==
  {Undefined, Def([defaultSchema |-> <<"o", "x">>]), Def([schemaSuffix |-> <<"$">>])}
Suffixes == {Undefined, Def(<<"s", "f", "x">>)}
Millis == {Undefined, Def(0), Def(50)}
Requests ==
  {Request(d, o, s, m, u) :
     d \in Dirs, o \in Overrides, s \in Suffixes, m \in Millis, u \in BOOLEAN}
\* the requests of the calls that run side by side: valid ones, with two deadlines
ConcRequest(c) == Request(ProjectDir, Undefined, Undefined, Def(50 * c), FALSE)
ConcRequests == {ConcRequest(c) : c \in Calls}

Fresh(f) == [c \in Calls |-> f]

\* The state before the calls of `active` are made, with their inputs.
InitWith(active, Reqs, Dsks) ==
  /\ pc = [c \in Calls |-> IF c \in active THEN "idle" ELSE "off"]
  /\ request \in [Calls -> Reqs]
  /\ disk \in [Calls -> Dsks]
  /\ \A c \in Calls \ active :
       request[c] = Request(ProjectDir, Undefined, Undefined, Undefined, FALSE)
       /\ disk[c] = GoodDisk
  /\ caught = Fresh(NoMessage)
  /\ topResult = Fresh([kind |-> "none", cause |-> NoMessage, value |-> NoValue, main |-> FALSE])
  /\ worker = Fresh("none")
  /\ exitCode = Fresh(Undefined)
  /\ killed = Fresh(FALSE)
  /\ killCalls = Fresh(0)
  /\ clearCalls = Fresh(0)
  /\ listeners = Fresh({})
  /\ sent = Fresh(0)
  /\ sendThrew = Fresh(FALSE)
  /\ unhandled = Fresh(FALSE)
  /\ nodeProcess = "up"
  /\ events = 0
  /\ timer = Fresh("unset")
  /\ timerDelay = Fresh(0)
  /\ childP = Fresh(Pending)
  /\ timeoutP = Fresh(Pending)
  /\ raceP = Fresh(Pending)
  /\ completion = Fresh([how |-> "none", v |-> NoValue])
  /\ outcome = Fresh([how |-> "none", v |-> NoValue])
  /\ firstSignal = Fresh([kind |-> "none", payload |-> "", code |-> Undefined])
  /\ terminations = 0
  /\ jobs = <<>>
  /\ turn = "none"

\* one compile() call, every request and every state of dataform.json
Init == InitWith({1}, Requests \cup ConcRequests, Disks)

(* ----------------------------- scheduling ----------------------------- *)
\* the lines at which a call is suspended (or not running at all)
Suspended == {"off", "idle", "await_race", "await_child", "await_compile", "done"}
\* no synchronous block is running
NoneRunning == \A c \in Calls : pc[c] \in Suspended
\* nothing runs and no microtask is queued
Quiescent == NoneRunning /\ jobs = <<>>
\* the process compile() runs in has not ended
Alive == nodeProcess # "crashed"
\* the event loop takes its next callback: the process is alive, the
\* microtasks are drained and the unhandled rejections reported
Ready ==
  /\ Quiescent
  /\ Alive
  /\ \A c \in Calls : ~unhandled[c]
\* running JavaScript (the caller's) can make a call: between two blocks
CallerRuns == NoneRunning /\ Alive
\* a callback of `kind` can run: as the next callback of the event loop, or
\* straight after another one of its kind
CanRun(kind) == NoneRunning /\ Alive /\ (Ready \/ turn = kind)

Goto(c, label) == pc' = [pc EXCEPT ![c] = label]


(* ----------------------- compile(): the config ------------------------ *)
\* compile.ts:25-27: the caller invokes compile()
Call(c) ==
  /\ UNCHANGED turn
  /\ CallerRuns
  /\ pc[c] = "idle"
  /\ Goto(c, "L29")
  /\ UNCHANGED <<cleanVars, cfgVars, procVars, ipcVars, timerVars, promVars, endVars,
                 firstSignal, jobs>>

\* compile.ts:29 path.resolve(compileConfig.projectDir): a projectDir that is
\* not a string makes path.resolve throw a TypeError, which compile() passes
\* on unwrapped (the promise of the async function is rejected with it)
ResolveProjectDir(c) ==
  /\ UNCHANGED turn
  /\ pc[c] = "L29"
  /\ IF IsDef(request[c].projectDir)
       THEN Goto(c, "L32") /\ UNCHANGED topResult
       ELSE /\ Goto(c, "done")
            /\ topResult' = [topResult EXCEPT ![c] =
                 [kind |-> "TypeError", cause |-> NoMessage, value |-> NoValue,
                  main |-> FALSE]]
  /\ UNCHANGED <<cleanVars, request, disk, caught, procVars, ipcVars, timerVars, promVars,
                 endVars, firstSignal, jobs>>

\* compile.ts:33-36  { schemaSuffix: schemaSuffixOverride, ...projectConfigOverride }
SpreadOverride(req) ==
  deepmerge([schemaSuffix |-> Val(req.schemaSuffixOverride)],
            IF IsDef(req.projectConfigOverride) THEN Val(req.projectConfigOverride) ELSE <<>>)

\* compile.ts:32-37
ApplySchemaSuffixOverride(c) ==
  /\ UNCHANGED turn
  /\ pc[c] = "L32"
  /\ request' =
       [request EXCEPT ![c] =
          IF TruthyStr(@.schemaSuffixOverride)
            THEN [@ EXCEPT !.projectConfigOverride = Def(SpreadOverride(request[c]))]
            ELSE @]
  /\ Goto(c, "L41")
  /\ UNCHANGED <<cleanVars, disk, caught, topResult, procVars, ipcVars, timerVars, promVars, endVars,
                 firstSignal, jobs>>

\* compile.ts:41 fs.readFileSync
ReadConfig(c) ==
  /\ UNCHANGED turn
  /\ pc[c] = "L41"
  /\ IF disk[c].exists
       THEN Goto(c, "L42") /\ UNCHANGED caught
       ELSE Goto(c, "L45") /\ caught' = [caught EXCEPT ![c] = Message("readFile", "", <<>>)]
  /\ UNCHANGED <<cleanVars, request, disk, topResult, procVars, ipcVars, timerVars, promVars, endVars,
                 firstSignal, jobs>>

\* compile.ts:42 JSON.parse
ParseConfig(c) ==
  /\ UNCHANGED turn
  /\ pc[c] = "L42"
  /\ IF disk[c].parsable
       THEN Goto(c, "L43") /\ UNCHANGED caught
       ELSE Goto(c, "L45") /\ caught' = [caught EXCEPT ![c] = Message("jsonParse", "", <<>>)]
  /\ UNCHANGED <<cleanVars, request, disk, topResult, procVars, ipcVars, timerVars, promVars, endVars,
                 firstSignal, jobs>>

\* compile.ts:43 the config handed to checkDataformJsonValidity
MergedConfig(c) ==
  deepmerge(disk[c].json,
            IF IsDef(request[c].projectConfigOverride)
              THEN Val(request[c].projectConfigOverride) ELSE <<>>)

\* mutant: the result of the validation ignored
AfterValidationIgnored(message) == "L51"

\* where compile() goes after the validation returned `message`
AfterValidation(message) == IF message = NoMessage THEN "L51" ELSE "L45"

\* compile.ts:43
ValidateConfig(c) ==
  /\ UNCHANGED turn
  /\ pc[c] = "L43"
  /\ LET message == checkDataformJsonValidity(MergedConfig(c))
     IN  /\ Goto(c, AfterValidation(message))
         /\ caught' = [caught EXCEPT ![c] = message]
  /\ UNCHANGED <<cleanVars, request, disk, topResult, procVars, ipcVars, timerVars, promVars, endVars,
                 firstSignal, jobs>>

\* compile.ts:44-49 throw new ErrorWithCause(..., e)
ThrowConfigError(c) ==
  /\ UNCHANGED turn
  /\ pc[c] = "L45"
  /\ topResult' = [topResult EXCEPT ![c] =
       [kind |-> "ConfigError", cause |-> caught[c], value |-> NoValue, main |-> FALSE]]
  /\ Goto(c, "done")
  /\ UNCHANGED <<cleanVars, request, disk, caught, procVars, ipcVars, timerVars, promVars, endVars,
                 firstSignal, jobs>>

\* compile.ts:51, 62-77 CompileChildProcess.forkProcess()
ForkProcess(c) ==
  /\ UNCHANGED turn
  /\ pc[c] = "L51"
  /\ worker' = [worker EXCEPT ![c] = "running"]
  /\ Goto(c, "L86")
  /\ UNCHANGED <<cleanVars, cfgVars, exitCode, killed, killCalls, terminations, ipcVars, timerVars,
                 promVars, endVars, firstSignal, jobs>>


(* ------------- CompileChildProcess.compile(): the start --------------- *)
\* mutant: the race awaited without a deadline timer
AfterNoTimer(label) ==
  CASE label = "L86" -> "L88"
    [] label = "L88" -> "L96"
    [] label = "L96" -> "L103"
    [] label = "L103" -> "L114"
    [] label = "L108" -> "L114"
    [] label = "L114" -> "await_race"

\* mutant: cleanup entered without awaiting the race
AfterCleanupEarly(label) ==
  CASE label = "L86" -> "L88"
    [] label = "L88" -> "L96"
    [] label = "L96" -> "L103"
    [] label = "L103" -> "L108"
    [] label = "L108" -> "L114"
    [] label = "L114" -> "L117"

\* mutant: the request sent before the 'message' and 'close' listeners exist
AfterSendEarly(label) ==
  CASE label = "L86" -> "L103"
    [] label = "L103" -> "L88"
    [] label = "L88" -> "L96"
    [] label = "L96" -> "L108"
    [] label = "L108" -> "L114"
    [] label = "L114" -> "await_race"

\* compile.ts:85-114: the order of the statements that run before the first await
After(label) ==
  CASE label = "L86" -> "L88"
    [] label = "L88" -> "L96"
    [] label = "L96" -> "L103"
    [] label = "L103" -> "L108"
    [] label = "L108" -> "L114"
    [] label = "L114" -> "await_race"

\* compile.ts:86, 88, 96 childProcess.on(event, ...)
RegisterListener(c, label, event) ==
  /\ UNCHANGED turn
  /\ pc[c] = label
  /\ listeners' = [listeners EXCEPT ![c] = @ \cup {event}]
  /\ Goto(c, After(label))
  /\ UNCHANGED <<cleanVars, cfgVars, procVars, sent, rejVars, events, timerVars, promVars, endVars, firstSignal,
                 jobs>>

\* compile.ts:86
OnError(c) == RegisterListener(c, "L86", "error")
\* compile.ts:88-94
OnMessage(c) == RegisterListener(c, "L88", "message")
\* compile.ts:96-100
OnClose(c) == RegisterListener(c, "L96", "close")

\* compile.ts:103 childProcess.send(compileConfig). A send that throws does so
\* inside the async executor (compile.ts:85): the promise the executor returns
\* is rejected and has no handler, compileInChildProcess stays pending, and
\* the statements after the constructor run all the same.
Send(c) ==
  /\ UNCHANGED turn
  /\ pc[c] = "L103"
  /\ sent' = [sent EXCEPT ![c] = @ + 1]
  /\ \E threw \in BOOLEAN :
       /\ sendThrew' = [sendThrew EXCEPT ![c] = threw]
       /\ unhandled' = [unhandled EXCEPT ![c] = threw]
  /\ Goto(c, After("L103"))
  /\ UNCHANGED <<cleanVars, cfgVars, procVars, listeners, nodeProcess, events, timerVars,
                 promVars, endVars, firstSignal, jobs>>

\* what the report of an unhandled rejection does to a process in state p:
\* it ends it (the default since Node 15) or warns and goes on (earlier
\* versions, or an 'unhandledRejection' handler); one process does the same
\* for every rejection
Reported(p) == IF p = "up" THEN {"warned", "crashed"} ELSE {p}

\* compile.ts:85, 103 the rejection of the executor's promise is reported,
\* once the synchronous block has ended and the microtasks are drained
UnhandledRejection(c) ==
  /\ turn' = "none"
  /\ Quiescent
  /\ Alive
  /\ unhandled[c]
  /\ unhandled' = [unhandled EXCEPT ![c] = FALSE]
  /\ nodeProcess' \in Reported(nodeProcess)
  /\ UNCHANGED <<cleanVars, pc, cfgVars, procVars, listeners, sent, sendThrew, events,
                 timerVars, promVars, endVars, firstSignal, jobs>>

\* mutant: the default used whatever the caller asks for
DelayAlwaysDefault(req) == DefaultTimeoutMillis

\* compile.ts:110 compileConfig.timeoutMillis || 5000
Delay(req) == IF TruthyNum(req.timeoutMillis) THEN Val(req.timeoutMillis) ELSE DefaultTimeoutMillis

\* compile.ts:105-112 timer = setTimeout(..., delay)
SetTimer(c) ==
  /\ UNCHANGED turn
  /\ pc[c] = "L108"
  /\ timer' = [timer EXCEPT ![c] = "armed"]
  /\ timerDelay' = [timerDelay EXCEPT ![c] = Delay(request[c])]
  /\ Goto(c, After("L108"))
  /\ UNCHANGED <<cleanVars, cfgVars, procVars, ipcVars, promVars, endVars, firstSignal,
                 jobs>>

\* the reaction jobs Promise.race queues for an input that is settled already
Subscribed(c, p, kind) == IF p.state # "pending" THEN <<Job(c, kind)>> ELSE <<>>

\* compile.ts:114 await Promise.race([timeout, compileInChildProcess])
AwaitRace(c) ==
  /\ UNCHANGED turn
  /\ pc[c] = "L114"
  /\ jobs' = jobs \o Subscribed(c, timeoutP[c], "race_timeout")
                  \o Subscribed(c, childP[c], "race_child")
  /\ Goto(c, After("L114"))
  /\ UNCHANGED <<cleanVars, cfgVars, procVars, ipcVars, timerVars, promVars, endVars,
                 firstSignal>>


(* --------------------- worker events and the timer -------------------- *)
Signal(kind, payload, code) == [kind |-> kind, payload |-> payload, code |-> code]
\* the history of call c once `sig`, a settling event, has occurred
Noted(c, sig) ==
  [firstSignal EXCEPT ![c] = IF @.kind = "none" THEN sig ELSE @]

\* mutant: the listener without its typeof test
messageListenerNoTypeTest(p, isString, m) == resolve(p, Success(m))

\* compile.ts:88-94 the 'message' listener, on the promise compileInChildProcess
messageListener(p, isString, m) ==
  IF isString THEN resolve(p, Success(m)) ELSE reject(p, WorkerError(m))
\* compile.ts:86 the 'error' listener
errorListener(p, e) == reject(p, WorkerError(e))
\* mutant: the listener without its test on the exit code
closeListenerAnyCode(p, code) == reject(p, ProcessExit(code))

\* mutant: the test on the exit code inverted
closeListenerInverted(p, code) == IF code = Def(0) THEN reject(p, ProcessExit(code)) ELSE p

\* compile.ts:96-100 the 'close' listener
closeListener(p, code) == IF code # Def(0) THEN reject(p, ProcessExit(code)) ELSE p
\* mutant: a timer callback that rejects nothing
timeoutCallbackNothing(p) == p

\* mutant: the deadline rejects with a plain error
timeoutCallbackPlainError(p) == reject(p, WorkerError("timeout"))

\* compile.ts:109 the timer's callback, on the promise timeout
timeoutCallback(p) == reject(p, CompilationTimeoutError)

\* promise compileInChildProcess of call c becomes `after`: the reaction of
\* Promise.race is queued, and the continuation of an await on the promise
ChildSettles(c, after) ==
  /\ childP' = [childP EXCEPT ![c] = after]
  /\ jobs' = jobs \o Reaction(c, childP[c], after, "race_child")
                  \o (IF pc[c] = "await_child"
                        THEN Reaction(c, childP[c], after, "resume") ELSE <<>>)

\* the worker sends a message over the channel: a string or an error object;
\* the messages that arrive together are emitted back to back
WorkerMessage(c, isString, m) ==
  /\ turn' = "ipc"
  /\ CanRun("ipc")
  /\ worker[c] # "none"
  /\ events < MaxEvents
  /\ events' = events + 1
  /\ firstSignal' = Noted(c, Signal(IF isString THEN "string" ELSE "nonstring", m, Undefined))
  /\ ChildSettles(c, IF "message" \in listeners[c]
                       THEN messageListener(childP[c], isString, m) ELSE childP[c])
  /\ UNCHANGED <<cleanVars, pc, cfgVars, procVars, listeners, sent, rejVars, timerVars, timeoutP,
                 raceP, endVars>>

\* the child process object emits 'error'
WorkerErrorEvent(c, e) ==
  /\ turn' = "ipc"
  /\ CanRun("ipc")
  /\ worker[c] # "none"
  /\ events < MaxEvents
  /\ events' = events + 1
  /\ firstSignal' = Noted(c, Signal("error", e, Undefined))
  /\ ChildSettles(c, IF "error" \in listeners[c]
                       THEN errorListener(childP[c], e) ELSE childP[c])
  /\ UNCHANGED <<cleanVars, pc, cfgVars, procVars, listeners, sent, rejVars, timerVars, timeoutP,
                 raceP, endVars>>

\* the worker process ends without the orchestrator's doing (concurrently with
\* it: it is another process): with an exit code, or by a signal sent from
\* elsewhere. Node has not yet noticed.
WorkerExit(c, ending) ==
  /\ UNCHANGED turn
  /\ worker[c] = "running"
  /\ worker' = [worker EXCEPT ![c] = "exited"]
  /\ exitCode' = [exitCode EXCEPT ![c] = ending]
  /\ UNCHANGED <<cleanVars, pc, cfgVars, killed, killCalls, terminations, ipcVars, timerVars, promVars,
                 endVars, firstSignal, jobs>>

\* Node processes the end of the child process: the handle is released, and
\* from now on kill() signals nothing ('exit' has no listener in compile.ts)
WorkerReaped(c) ==
  /\ turn' = "none"
  /\ Ready
  /\ worker[c] \in {"exited", "killed"}
  /\ worker' = [worker EXCEPT ![c] = "reaped"]
  /\ UNCHANGED <<cleanVars, pc, cfgVars, exitCode, killed, killCalls, terminations, ipcVars,
                 timerVars, promVars, endVars, firstSignal, jobs>>

\* the child process object emits 'close' with the exit code: the code the
\* process ended with, null (Undefined) when a signal ended it
WorkerClose(c) ==
  /\ turn' = "none"
  /\ Ready
  /\ worker[c] = "reaped"
  /\ worker' = [worker EXCEPT ![c] = "closed"]
  /\ firstSignal' = IF exitCode[c] # Def(0)
                      THEN Noted(c, Signal("close", "", exitCode[c])) ELSE firstSignal
  /\ ChildSettles(c, IF "close" \in listeners[c]
                       THEN closeListener(childP[c], exitCode[c]) ELSE childP[c])
  /\ UNCHANGED <<cleanVars, pc, cfgVars, exitCode, killed, killCalls, terminations, ipcVars, timerVars,
                 timeoutP, raceP, endVars>>

\* the deadline elapses: the timer's callback runs (before Node 11 straight
\* after another timer that is due, with no promise job in between)
TimerFire(c) ==
  /\ turn' = "timers"
  /\ CanRun("timers")
  /\ timer[c] = "armed"
  /\ timer' = [timer EXCEPT ![c] = "fired"]
  /\ firstSignal' = Noted(c, Signal("timer", "", Undefined))
  /\ timeoutP' = [timeoutP EXCEPT ![c] = timeoutCallback(@)]
  /\ jobs' = jobs \o Reaction(c, timeoutP[c], timeoutCallback(timeoutP[c]), "race_timeout")
  /\ UNCHANGED <<cleanVars, pc, cfgVars, procVars, ipcVars, timerDelay, childP, raceP,
                 endVars>>


(* ----------------------------- microtasks ----------------------------- *)
\* mutant: the last input settled wins
adoptLast(race, input) == input

\* Promise.race: the returned promise takes the state of the first input settled
adopt(race, input) == IF race.state = "pending" THEN input ELSE race

\* a reaction job of Promise.race (compile.ts:114) on one of its inputs
RaceReaction(c) ==
  /\ turn' = "none"
  /\ NoneRunning
  /\ jobs # <<>>
  /\ Head(jobs).call = c
  /\ Head(jobs).kind \in {"race_child", "race_timeout"}
  /\ LET input == IF Head(jobs).kind = "race_child" THEN childP[c] ELSE timeoutP[c]
         after == adopt(raceP[c], input)
     IN  /\ raceP' = [raceP EXCEPT ![c] = after]
         /\ jobs' = Tail(jobs) \o (IF pc[c] = "await_race"
                                     THEN Reaction(c, raceP[c], after, "resume") ELSE <<>>)
  /\ UNCHANGED <<cleanVars, pc, cfgVars, procVars, ipcVars, timerVars, childP, timeoutP, endVars,
                 firstSignal>>

Return(v) == [how |-> "return", v |-> v]
Throw(e) == [how |-> "throw", v |-> e]
\* what `await p` evaluates to, for a settled promise p
Awaited(p) == IF p.state = "resolved" THEN Return(p.v) ELSE Throw(p.v)

\* mutant: cleanup after the try block instead of in a finally block
AfterTryNoFinally(how) == IF how = "throw" THEN "L123" ELSE "L117"

\* compile.ts:113-116 try { ... } finally: however the try block completes
\* ("return" or "throw"), the finally block runs next
AfterTry(how) == "L117"

\* compile.ts:114 the async function continues after `await Promise.race(...)`:
\* a rejection leaves the try block, a fulfilment goes on to line 115
ResumeAfterRace(c) ==
  /\ turn' = "none"
  /\ NoneRunning
  /\ jobs # <<>>
  /\ Head(jobs) = Job(c, "resume")
  /\ pc[c] = "await_race"
  /\ jobs' = Tail(jobs)
  /\ IF raceP[c].state = "resolved"
       THEN Goto(c, "L115") /\ UNCHANGED completion
       ELSE /\ Goto(c, AfterTry("throw"))
            /\ completion' = [completion EXCEPT ![c] = Awaited(raceP[c])]
  /\ UNCHANGED <<cleanVars, cfgVars, procVars, ipcVars, timerVars, promVars, outcome,
                 firstSignal>>

\* compile.ts:115 return await compileInChildProcess: the await
AwaitChild(c) ==
  /\ UNCHANGED turn
  /\ pc[c] = "L115"
  /\ jobs' = jobs \o Subscribed(c, childP[c], "resume")
  /\ Goto(c, "await_child")
  /\ UNCHANGED <<cleanVars, cfgVars, procVars, ipcVars, timerVars, promVars, endVars,
                 firstSignal>>

\* compile.ts:115 return await compileInChildProcess: the return (or the throw)
ResumeAfterChild(c) ==
  /\ turn' = "none"
  /\ NoneRunning
  /\ jobs # <<>>
  /\ Head(jobs) = Job(c, "resume")
  /\ pc[c] = "await_child"
  /\ jobs' = Tail(jobs)
  /\ completion' = [completion EXCEPT ![c] = Awaited(childP[c])]
  /\ Goto(c, AfterTry(Awaited(childP[c]).how))
  /\ UNCHANGED <<cleanVars, cfgVars, procVars, ipcVars, timerVars, promVars, outcome,
                 firstSignal>>

(* ------------------------------ cleanup ------------------------------- *)
\* mutant: cleanup that signals nothing
killNoSignal(w, k) == [worker |-> w, killed |-> k]

\* mutant: a termination that does not look at the state of the process
killUnchecked(w, k) == [worker |-> "killed", killed |-> TRUE]

\* childProcess.kill("SIGKILL") on a process in state w, with childProcess.killed
\* = k. While Node holds the handle the signal is delivered and killed becomes
\* true: a live process dies of it, a process that has ended already keeps
\* the way it ended. Once Node has processed the exit the call signals
\* nothing and returns false, raising nothing.
kill(w, k) ==
  CASE w \in {"running", "killed"} -> [worker |-> "killed", killed |-> TRUE]
    [] w = "exited" -> [worker |-> "exited", killed |-> TRUE]
    [] OTHER -> [worker |-> w, killed |-> k]

\* mutant: one child process shared by all calls
KillAllWorkers(c) ==
  /\ UNCHANGED turn
  /\ pc[c] = "L117"
  /\ killCalls' = [killCalls EXCEPT ![c] = @ + 1]
  /\ worker' = [d \in Calls |-> IF worker[d] = "none" THEN "none"
                                 ELSE kill(worker[d], killed[d]).worker]
  /\ killed' = [d \in Calls |-> IF worker[d] = "none" THEN killed[d]
                                 ELSE kill(worker[d], killed[d]).killed]
  /\ Goto(c, "L120")
  /\ UNCHANGED <<cleanVars, cfgVars, exitCode, terminations, ipcVars, timerVars, promVars,
                 endVars, firstSignal, jobs>>

\* compile.ts:117-119 if (!this.childProcess.killed) this.childProcess.kill("SIGKILL")
KillWorker(c) ==
  /\ UNCHANGED turn
  /\ pc[c] = "L117"
  /\ IF ~killed[c]
       THEN /\ killCalls' = [killCalls EXCEPT ![c] = @ + 1]
            /\ worker' = [worker EXCEPT ![c] = kill(@, killed[c]).worker]
            /\ killed' = [killed EXCEPT ![c] = kill(worker[c], @).killed]
       ELSE UNCHANGED <<killCalls, worker, killed>>
  /\ Goto(c, "L120")
  /\ UNCHANGED <<cleanVars, cfgVars, exitCode, terminations, ipcVars, timerVars, promVars, endVars,
                 firstSignal, jobs>>

\* mutant: a clearTimeout that cancels nothing
clearTimeoutNoop(t) == t

\* clearTimeout(t): an armed timer is cancelled, any other is left as it is
clearTimeout(t) == IF t = "armed" THEN "cleared" ELSE t

\* compile.ts:120-122 if (timer) clearTimeout(timer)
ClearTimer(c) ==
  /\ UNCHANGED turn
  /\ pc[c] = "L120"
  /\ IF timer[c] # "unset"
       THEN /\ timer' = [timer EXCEPT ![c] = clearTimeout(@)]
            /\ clearCalls' = [clearCalls EXCEPT ![c] = @ + 1]
       ELSE UNCHANGED <<timer, clearCalls>>
  /\ Goto(c, "L123")
  /\ UNCHANGED <<cfgVars, procVars, ipcVars, timerDelay, promVars, endVars, firstSignal,
                 jobs>>

\* compile.ts:123-124 the finally block ends: the call returns or throws what
\* the try block completed with; the promise of CompileChildProcess.compile()
\* settles, and the continuation of compile(), which awaits it at line 51,
\* is queued
Settle(c) ==
  /\ UNCHANGED turn
  /\ pc[c] = "L123"
  /\ outcome' = [outcome EXCEPT ![c] = completion[c]]
  /\ jobs' = jobs \o <<Job(c, "return")>>
  /\ Goto(c, "await_compile")
  /\ UNCHANGED <<cleanVars, cfgVars, procVars, ipcVars, timerVars, promVars, completion, firstSignal>>

\* compile.ts:53-58 decode64 of the result; an error of
\* CompileChildProcess.compile() passes through compile() (compile.ts:51)
Decoded(out, main) ==
  IF out.how = "return"
    THEN [kind |-> "CompiledGraph", cause |-> NoMessage, value |-> out.v, main |-> main]
    ELSE [kind |-> "Thrown", cause |-> NoMessage, value |-> out.v, main |-> FALSE]

\* compile.ts:51-58 compile() continues after its await and returns or throws
ReturnToCaller(c) ==
  /\ turn' = "none"
  /\ NoneRunning
  /\ jobs # <<>>
  /\ Head(jobs) = Job(c, "return")
  /\ pc[c] = "await_compile"
  /\ jobs' = Tail(jobs)
  /\ topResult' = [topResult EXCEPT ![c] = Decoded(outcome[c], request[c].useMain)]
  /\ Goto(c, "done")
  /\ UNCHANGED <<cleanVars, request, disk, caught, procVars, ipcVars, timerVars, promVars, endVars,
                 firstSignal>>

\* after the call has settled, the caller terminates the worker handle again
TerminateAgain(c) ==
  /\ UNCHANGED turn
  /\ CallerRuns
  /\ pc[c] = "done"
  /\ worker[c] # "none"
  /\ terminations < MaxTerminate
  /\ terminations' = terminations + 1
  /\ worker' = [worker EXCEPT ![c] = kill(@, killed[c]).worker]
  /\ killed' = [killed EXCEPT ![c] = kill(worker[c], @).killed]
  /\ UNCHANGED <<cleanVars, pc, cfgVars, exitCode, killCalls, ipcVars, timerVars, promVars, endVars,
                 firstSignal, jobs>>

(* --------------------------- specifications --------------------------- *)
\* the worker of call c sends a message: one of the strings `payloads`, or an
\* error object
Messages(c, payloads) ==
  \E isString \in BOOLEAN, m \in payloads \cup Errors :
    (isString <=> m \in payloads) /\ WorkerMessage(c, isString, m)

\* the other steps of call c and of its worker, up to the return to the caller
CallStep(c) ==
    \/ Call(c)
    \/ ResolveProjectDir(c)
    \/ ApplySchemaSuffixOverride(c)
    \/ ReadConfig(c)
    \/ ParseConfig(c)
    \/ ValidateConfig(c)
    \/ ThrowConfigError(c)
    \/ ForkProcess(c)
    \/ OnError(c)
    \/ OnMessage(c)
    \/ OnClose(c)
    \/ Send(c)
    \/ SetTimer(c)
    \/ AwaitRace(c)
    \/ UnhandledRejection(c)
    \/ \E e \in Errors : WorkerErrorEvent(c, e)
    \/ \E ending \in Endings : WorkerExit(c, ending)
    \/ WorkerReaped(c)
    \/ WorkerClose(c)
    \/ TimerFire(c)
    \/ RaceReaction(c)
    \/ ResumeAfterRace(c)
    \/ AwaitChild(c)
    \/ ResumeAfterChild(c)
    \/ KillWorker(c)
    \/ ClearTimer(c)
    \/ Settle(c)
    \/ ReturnToCaller(c)

Next == \E c \in Calls : CallStep(c) \/ Messages(c, Payloads) \/ TerminateAgain(c)

Spec == Init /\ [][Next]_vars

\* the steps of call c that the JavaScript engine takes by itself: the
\* statements of a synchronous block and the queued microtasks
Step(c) ==
  \/ ResolveProjectDir(c)
  \/ ApplySchemaSuffixOverride(c)
  \/ ReadConfig(c)
  \/ ParseConfig(c)
  \/ ValidateConfig(c)
  \/ ThrowConfigError(c)
  \/ ForkProcess(c)
  \/ OnError(c)
  \/ OnMessage(c)
  \/ OnClose(c)
  \/ Send(c)
  \/ SetTimer(c)
  \/ AwaitRace(c)
  \/ UnhandledRejection(c)
  \/ RaceReaction(c)
  \/ ResumeAfterRace(c)
  \/ AwaitChild(c)
  \/ ResumeAfterChild(c)
  \/ KillWorker(c)
  \/ ClearTimer(c)
  \/ Settle(c)
  \/ ReturnToCaller(c)

\* The engine keeps running what is runnable, and an armed timer fires once
\* the event loop is idle (of a process that is alive); the worker owes nothing.
SpecLive ==
  /\ Init
  /\ [][Next]_vars
  /\ \A c \in Calls : WF_vars(Step(c)) /\ WF_vars(TimerFire(c))

\* The validator on its own: the parsed dataform.json ranges over the configs
\* with a warehouse that is absent, empty, allowed or not allowed, a
\* defaultSchema that is absent, well-formed or ill-formed, and a schemaSuffix
\* that is absent or ill-formed; the request brings its overrides.
ValidateJsons ==
  { deepmerge(deepmerge(w, d), x) :
      w \in {<<>>, [warehouse |-> <<>>], [warehouse |-> BIGQUERY], [warehouse |-> <<"x">>]},
      d \in {<<>>, [defaultSchema |-> <<"d", "f">>], [defaultSchema |-> <<"d", "$">>]},
      x \in {<<>>, [schemaSuffix |-> <<"$">>]} }
ValidateRequests ==
  {Request(ProjectDir, o, x, Undefined, FALSE) : o \in Overrides, x \in Suffixes}
InitValidate ==
  InitWith({1}, ValidateRequests, {Disk(TRUE, TRUE, j) : j \in ValidateJsons})
\* compile.ts:25-49: compile() up to the end of the validation
NextValidate ==
  \E c \in Calls :
    \/ Call(c)
    \/ ResolveProjectDir(c)
    \/ ApplySchemaSuffixOverride(c)
    \/ ReadConfig(c)
    \/ ParseConfig(c)
    \/ ValidateConfig(c)
    \/ ThrowConfigError(c)
SpecValidate == InitValidate /\ [][NextValidate]_vars

\* the calls run side by side, each on its own worker with its own deadline
InitConc ==
  /\ InitWith(Calls, ConcRequests, {GoodDisk, NoFileDisk})
  /\ \A c \in Calls : request[c] = ConcRequest(c)
\* the answer of each worker is its own: the compiled graph of its request
Response(c) == IF c = 1 THEN "p1" ELSE "p2"
NextConc == \E c \in Calls : CallStep(c) \/ Messages(c, {Response(c)})
SpecConc == InitConc /\ [][NextConc]_vars


(* ------------------------------- claims ------------------------------- *)
Settled(c) == outcome[c].how # "none"
Decided(c) == raceP[c].state # "pending"

\* the outcome the first settling event of a call stands for
Expected(sig) ==
  CASE sig.kind = "string" -> Return(Success(sig.payload))
    [] sig.kind \in {"nonstring", "error"} -> Throw(WorkerError(sig.payload))
    [] sig.kind = "close" -> Throw(ProcessExit(sig.code))
    [] sig.kind = "timer" -> Throw(CompilationTimeoutError)
    [] OTHER -> [how |-> "none", v |-> NoValue]

\* C1: a call produces at most one outcome and the outcome never changes: once
\* the race is decided its result stays, whatever events and timer firings
\* follow, and what the call returned or threw is that result and stays too.
C1_OutcomeIsFinal ==
  [][\A c \in Calls :
       /\ Decided(c) => raceP'[c] = raceP[c]
       /\ Settled(c) => outcome'[c] = outcome[c]
       /\ Settled(c)' => outcome'[c] = Awaited(raceP'[c])]_vars

\* a call that threw the timeout error, after which its worker's response arrived
C1_Witness ==
  \E c \in Calls :
    /\ outcome[c] = Throw(CompilationTimeoutError)
    /\ childP[c].state = "resolved"

\* C2: in every state where a call has returned or thrown, its worker is not
\* running: it had ended by itself (and Node had processed its exit), or
\* cleanup has sent it SIGKILL.
C2_WorkerNotRunning ==
  \A c \in Calls :
    Settled(c) =>
      /\ worker[c] \in {"exited", "killed", "reaped", "closed"}
      /\ worker[c] \in {"reaped", "closed"} \/ killed[c]

\* a call settled by a response whose live worker cleanup had to kill
C2_Witness ==
  \E c \in Calls :
    /\ outcome[c].how = "return"
    /\ worker[c] = "killed"
    /\ killed[c] /\ ~IsDef(exitCode[c])

\* C3: the outcome is the one of the first settling event (string message:
\* Success with its payload; non-string message or 'error': WorkerError;
\* 'close' with a non-zero code: ProcessExit; timer: CompilationTimeoutError),
\* and no settling event after the first changes it.
C3_FirstSignalWins ==
  \A c \in Calls :
    /\ Decided(c) => Awaited(raceP[c]) = Expected(firstSignal[c])
    /\ Settled(c) => outcome[c] = Expected(firstSignal[c])

\* a call settled by an error whose worker sent a string response afterwards,
\* and whose 'close' after the cleanup kill has been delivered
C3_Witness ==
  \E c \in Calls :
    /\ outcome[c].how = "throw" /\ outcome[c].v.kind = "WorkerError"
    /\ events = MaxEvents
    /\ killed[c] /\ worker[c] = "closed"

\* C4: whenever a call has settled, both cleanup actions have run: the worker
\* was terminated and the timer was cleared, on every path.
C4_CleanupOnEveryPath ==
  \A c \in Calls :
    Settled(c) =>
      /\ killCalls[c] = 1
      /\ clearCalls[c] = 1
      /\ timer[c] # "armed"
      /\ worker[c] # "running"

\* a call that threw (the await raised) with both cleanup actions done
C4_Witness ==
  \E c \in Calls :
    /\ outcome[c].how = "throw"
    /\ killCalls[c] = 1 /\ clearCalls[c] = 1

\* C5: when the deadline elapses before any message, 'error' or non-zero
\* 'close', the call fails with CompilationTimeoutError and with nothing else,
\* and its worker has been sent the kill signal (or had ended) by then.
C5_TimeoutKillsWorker ==
  \A c \in Calls :
    (firstSignal[c].kind = "timer" /\ Quiescent) =>
      /\ outcome[c] = Throw(CompilationTimeoutError)
      /\ killCalls[c] = 1
      /\ worker[c] # "running"

\* a call that timed out on a silent, live worker
C5_Witness ==
  \E c \in Calls :
    /\ firstSignal[c].kind = "timer"
    /\ outcome[c] = Throw(CompilationTimeoutError)
    /\ killed[c] /\ events = 0

\* C6: a string response before the deadline makes the call return Success
\* with that payload, and once a call has settled by a path other than the
\* timeout its timer is cancelled: the timeout callback cannot run any more.
C6_SuccessCancelsTimer ==
  \A c \in Calls :
    /\ (firstSignal[c].kind = "string" /\ Quiescent) =>
         outcome[c] = Return(Success(firstSignal[c].payload))
    /\ (Settled(c) /\ outcome[c] # Throw(CompilationTimeoutError)) =>
         (timer[c] = "cleared" /\ timeoutP[c].state = "pending")

\* a call that returned Success, its timer cancelled
C6_Witness ==
  \E c \in Calls :
    /\ outcome[c] = Return(Success("p2"))
    /\ timer[c] = "cleared"

\* C7: a 'close' with a non-zero code before any message, 'error' event and
\* the deadline makes the call fail with the process-exit error of that code.
C7_NonZeroExit ==
  \A c \in Calls :
    (firstSignal[c].kind = "close" /\ Quiescent) =>
      /\ exitCode[c] # Def(0)
      /\ outcome[c] = Throw(ProcessExit(exitCode[c]))

\* a call that failed with the exit code of its worker
C7_Witness ==
  \E c \in Calls :
    /\ firstSignal[c].kind = "close"
    /\ outcome[c] = Throw(ProcessExit(Def(MaxExitCode)))


\* the state of one call: everything the model keeps per call
CallState(c) ==
  <<pc[c], request[c], topResult[c], worker[c], exitCode[c], killed[c], killCalls[c],
    clearCalls[c], listeners[c], sent[c], sendThrew[c], unhandled[c], timer[c], timerDelay[c], childP[c], timeoutP[c],
    raceP[c], completion[c], outcome[c], firstSignal[c]>>

\* C8: two calls running side by side do not interfere: no step changes the
\* state of both calls (so the cleanup of one never kills the other's worker
\* or clears the other's timer), each timer runs on its own call's deadline,
\* and each outcome is the one of the call's own first settling event (a
\* returned payload is the answer of the call's own worker).
C8_CallsIndependent ==
  /\ [][\A c, d \in Calls :
          c # d => (CallState(c)' = CallState(c) \/ CallState(d)' = CallState(d))]_vars
  /\ [](\A c \in Calls :
          /\ timer[c] # "unset" => timerDelay[c] = Delay(request[c])
          /\ Settled(c) => outcome[c] = Expected(firstSignal[c])
          /\ outcome[c].how = "return" => outcome[c] = Return(Success(Response(c))))

\* one call has settled and cleaned up while the other, with another deadline,
\* is still pending on a live worker with its timer armed
C8_Witness ==
  \E c, d \in Calls :
    /\ pc[c] = "done" /\ killed[c] /\ timer[c] = "cleared"
    /\ pc[d] = "await_race" /\ worker[d] = "running" /\ timer[d] = "armed"
    /\ timerDelay[c] # timerDelay[d]

\* C9: terminating the worker handle again after the call has settled changes
\* neither the worker nor the outcome of any call.
C9_TerminateIdempotent ==
  [][terminations' # terminations =>
       /\ worker' = worker /\ killed' = killed /\ exitCode' = exitCode
       /\ outcome' = outcome /\ topResult' = topResult]_vars

\* a second termination of a worker that had exited by itself before cleanup
C9_Witness ==
  \E c \in Calls :
    /\ terminations > 0
    /\ Settled(c)
    /\ worker[c] \in {"reaped", "closed"} /\ IsDef(exitCode[c])
    /\ ~killed[c] /\ killCalls[c] = 1

\* the error that reading, parsing and validating dataform.json ends with,
\* for a call that gets as far as reading it
ConfigFailure(c) ==
  IF ~disk[c].exists THEN Message("readFile", "", <<>>)
  ELSE IF ~disk[c].parsable THEN Message("jsonParse", "", <<>>)
  ELSE checkDataformJsonValidity(MergedConfig(c))

\* C10: when reading, parsing or validating the project config fails, the
\* top-level compile() fails with that error wrapped and neither spawns a
\* worker nor sends a request; a worker exists only after a validation that
\* succeeded.
C10_ConfigErrorBeforeSpawn ==
  \A c \in Calls :
    /\ (pc[c] = "done" /\ IsDef(request[c].projectDir) /\ ConfigFailure(c) # NoMessage) =>
         /\ topResult[c].kind = "ConfigError"
         /\ topResult[c].cause = ConfigFailure(c)
         /\ worker[c] = "none" /\ sent[c] = 0
    /\ worker[c] # "none" => ConfigFailure(c) = NoMessage

\* a call that failed on a config the validator rejects, no worker spawned
C10_Witness ==
  \E c \in Calls :
    /\ topResult[c].kind = "ConfigError"
    /\ topResult[c].cause.rule = "missingMandatory"
    /\ worker[c] = "none"

\* C11 as stated: the deadline is timeoutMillis whenever the caller specifies
\* one, and is 5000 ms exactly when timeoutMillis is unspecified.
C11_Original ==
  \A c \in Calls :
    timer[c] # "unset" =>
      /\ IsDef(request[c].timeoutMillis) => timerDelay[c] = Val(request[c].timeoutMillis)
      /\ timerDelay[c] = DefaultTimeoutMillis <=> ~IsDef(request[c].timeoutMillis)

\* C11 amended: the deadline is timeoutMillis for every non-zero value the
\* caller specifies, and is 5000 ms when timeoutMillis is unspecified or 0.
C11_DeadlineOrDefault ==
  \A c \in Calls :
    timer[c] # "unset" =>
      LET millis == request[c].timeoutMillis
      IN  /\ (IsDef(millis) /\ Val(millis) # 0) => timerDelay[c] = Val(millis)
          /\ (~IsDef(millis) \/ Val(millis) = 0) => timerDelay[c] = DefaultTimeoutMillis

\* a call whose timer was armed with the default for a timeoutMillis of 0
C11_Witness ==
  \E c \in Calls :
    /\ request[c].timeoutMillis = Def(0)
    /\ timer[c] = "armed"
    /\ timerDelay[c] = DefaultTimeoutMillis

\* checkDataformJsonValidity has run on the merged config of call c, and
\* caught[c] holds the message it threw (NoMessage when it returned)
Validated(c) ==
  /\ disk[c].exists /\ disk[c].parsable
  /\ IsDef(request[c].projectDir)
  /\ pc[c] \notin {"off", "idle", "L29", "L32", "L41", "L42", "L43"}

\* The three rules as the specification words them.
\* rule 1: a warehouse that is present belongs to the allow-list
WarehouseRuleViolated(cfg) ==
  Has(cfg, "warehouse") /\ cfg["warehouse"] \notin RangeOf(validWarehouses)
\* rule 2: a simple field that is present matches ^[A-Za-z0-9_-]*$
SimpleRuleViolated(cfg) ==
  \E prop \in RangeOf(simpleCheckProps) : Has(cfg, prop) /\ ~RegexTest(cfg[prop])
\* rule 3: every mandatory field is present
MissingMandatory(cfg) == {prop \in RangeOf(mandatoryProps) : ~Has(cfg, prop)}
FirstViolatedRule(cfg) ==
  IF WarehouseRuleViolated(cfg) THEN "invalidWarehouse"
  ELSE IF SimpleRuleViolated(cfg) THEN "invalidProp"
  ELSE IF MissingMandatory(cfg) # {} THEN "missingMandatory"
  ELSE "none"

\* C12: the rules are checked in the order warehouse, simple-pattern fields,
\* mandatory fields, and the error raised is the one of the first rule in
\* this order that the config violates.
C12_FirstViolatedRuleWins ==
  \A c \in Calls :
    (Validated(c) /\ caught[c] # NoMessage) =>
      caught[c].rule = FirstViolatedRule(MergedConfig(c))

\* C13 as stated: for a config missing a mandatory field the error is the
\* missing-mandatory error naming a missing field.
C13_Original ==
  \A c \in Calls :
    (Validated(c) /\ MissingMandatory(MergedConfig(c)) # {}) =>
      /\ caught[c].rule = "missingMandatory"
      /\ caught[c].prop \in MissingMandatory(MergedConfig(c))

\* C13 amended: a config missing a mandatory field is rejected; when it
\* violates neither the warehouse rule nor the simple-pattern rule the error
\* is the missing-mandatory error naming the first missing field in the order
\* warehouse, defaultSchema.
C13_MissingMandatoryRejected ==
  \A c \in Calls :
    LET cfg == MergedConfig(c)
        first == mandatoryProps[FindIndex(mandatoryProps, MissingMandatory(cfg))]
    IN  (Validated(c) /\ MissingMandatory(cfg) # {}) =>
          /\ caught[c] # NoMessage
          /\ (~WarehouseRuleViolated(cfg) /\ ~SimpleRuleViolated(cfg)) =>
               caught[c] = Message("missingMandatory", first, <<>>)

\* a config with an allowed warehouse and no defaultSchema, rejected for it
C13_Witness ==
  \E c \in Calls :
    /\ Validated(c)
    /\ MergedConfig(c) = [warehouse |-> BIGQUERY]
    /\ caught[c] = Message("missingMandatory", "defaultSchema", <<>>)

\* C14: the invalid-warehouse error is raised exactly when warehouse is
\* present with a value outside the allow-list.
C14_InvalidWarehouseIff ==
  \A c \in Calls :
    Validated(c) =>
      (caught[c].rule = "invalidWarehouse" <=> WarehouseRuleViolated(MergedConfig(c)))

\* C15: compile() leaves the caller's request object unchanged: no step of a
\* call changes any field of it, projectConfigOverride included.
C15_RequestUnchanged == [][request' = request]_vars

\* the worker of call c has closed with exit code 0 and no settling event has
\* occurred yet
ClosedCleanly(c) ==
  /\ worker[c] = "closed" /\ exitCode[c] = Def(0)
  /\ firstSignal[c].kind = "none"

\* C16: a 'close' with exit code 0 before any message or 'error' event does
\* not settle the call: the call stays pending on its armed timer, a call
\* settles only on a settling event, and when the next one is the deadline
\* the call throws CompilationTimeoutError.
C16_CleanCloseDoesNotSettle ==
  \A c \in Calls :
    /\ ClosedCleanly(c) =>
         /\ pc[c] = "await_race" /\ timer[c] = "armed"
         /\ childP[c] = Pending /\ raceP[c] = Pending
         /\ ~Settled(c)
    /\ Settled(c) => firstSignal[c].kind # "none"
    /\ (worker[c] = "closed" /\ exitCode[c] = Def(0) /\ firstSignal[c].kind = "timer"
          /\ Quiescent) =>
         outcome[c] = Throw(CompilationTimeoutError)

\* a call still pending after its silent worker closed with exit code 0
C16_Witness ==
  \E c \in Calls :
    /\ ClosedCleanly(c)
    /\ pc[c] = "await_race" /\ events = 0

AllListeners == {"error", "message", "close"}

\* C17: within one call the request is handed to childProcess.send exactly
\* once, and only when the listeners of 'error', 'message' and 'close' are all
\* registered; whenever an event of the worker can be delivered, they are.
C17_SendOnceAfterListeners ==
  \A c \in Calls :
    /\ sent[c] <= 1
    /\ sent[c] = 1 => listeners[c] = AllListeners
    /\ (timer[c] # "unset" \/ Settled(c)) => sent[c] = 1
    /\ (worker[c] # "none" /\ NoneRunning) => (sent[c] = 1 /\ listeners[c] = AllListeners)

\* the request has just been sent, the three listeners in place
C17_Witness ==
  \E c \in Calls :
    /\ pc[c] = "L108"
    /\ sent[c] = 1 /\ ~sendThrew[c]
    /\ listeners[c] = AllListeners

\* C18 as stated: there is no state in which the request has been sent and the
\* timer is not yet started.
C18_Original == \A c \in Calls : sent[c] > 0 => timer[c] # "unset"

\* C18 amended: the request is sent before the timer is started, both in one
\* synchronous block: the only state with the request sent and no timer is the
\* one between lines 103 and 108, and whenever the event loop can deliver an
\* event the timer of a sent request has been started.
C18_TimerInSameBlock ==
  \A c \in Calls :
    /\ timer[c] # "unset" => sent[c] = 1
    /\ (sent[c] = 1 /\ timer[c] = "unset") => pc[c] = "L108"
    /\ (sent[c] = 1 /\ NoneRunning) => timer[c] # "unset"

\* the state after the send and before setTimeout
C18_Witness ==
  \E c \in Calls :
    /\ pc[c] = "L108"
    /\ sent[c] = 1 /\ timer[c] = "unset"

\* the armed timer of call c eventually fires (or is cleared): it does not
\* stay armed for ever
TimerEventuallyFires(c) == []<>(timer[c] # "armed")

\* call c has returned or thrown, to its caller too, with both cleanup actions done
SettledAndCleanedUp(c) ==
  pc[c] = "done" /\ Settled(c) /\ killCalls[c] = 1 /\ clearCalls[c] = 1

\* C19: assuming the armed timer eventually fires, every call that reaches the
\* race eventually returns or throws, with both cleanup actions done, whatever
\* its worker does (respond, fail, exit with any code or by a signal, stay
\* silent) and whether or not the send threw.
C19_EventuallySettles ==
  /\ TimerEventuallyFires(1) => ((pc[1] = "await_race") ~> SettledAndCleanedUp(1))
  /\ TimerEventuallyFires(2) => ((pc[2] = "await_race") ~> SettledAndCleanedUp(2))

\* a call whose send threw and whose worker stayed silent and alive: the
\* timer fired and settled it, cleanup killed the worker
C19_Witness ==
  \E c \in Calls :
    /\ sendThrew[c] /\ nodeProcess = "warned"
    /\ events = 0 /\ worker[c] = "killed"
    /\ timer[c] = "fired"
    /\ SettledAndCleanedUp(c)
    /\ outcome[c] = Throw(CompilationTimeoutError)

\* C20: the orchestrator signals the worker only in cleanup: whenever kill has
\* been called or the worker carries the orchestrator's signal, the race is
\* decided by a settling event and the try block has completed; and kill is
\* called at most once per call.
C20_KillOnlyInCleanup ==
  \A c \in Calls :
    /\ killCalls[c] <= 1
    /\ (killCalls[c] > 0 \/ killed[c] \/ worker[c] = "killed") =>
         /\ Decided(c)
         /\ firstSignal[c].kind # "none"
         /\ completion[c].how # "none"
         /\ pc[c] \notin {"L86", "L88", "L96", "L103", "L108", "L114", "await_race",
                          "L115", "await_child", "L117"}

\* a running worker that got the signal in cleanup, after the race was decided
C20_Witness ==
  \E c \in Calls :
    /\ killCalls[c] = 1 /\ killed[c] /\ worker[c] = "killed"
    /\ Decided(c) /\ pc[c] = "L120"

====
